---- MODULE Spec2Model ----
(***************************************************************************)
(* A model of the bet tracker: the statistics aggregator (app.py           *)
(* calculate_stats), the CSV import pipeline (csv_importer.py), the email   *)
(* pattern extractor (email_parser.py), and the request handlers of app.py *)
(* that persist and update bets.                                           *)
(*                                                                         *)
(* Representation.                                                         *)
(*  - A Python str is a sequence of one-character strings, so that         *)
(*    strip(), lower(), re.sub() and the parsers act on characters.        *)
(*  - Python None is the one-element tuple None where a str may stand (it  *)
(*    differs from every str because its element is not one character),    *)
(*    and the record NoneRec where a dict may stand.                       *)
(*  - A Python float is an integer count of thousandths (25.00 is 25000),  *)
(*    so 47.73 and 10.004 are exact.  An Optional[float] is <<>> for None  *)
(*    (or for a raised ValueError, as noted at each use) and <<n>> for a   *)
(*    number.                                                              *)
(*  - A percentage is likewise a count of thousandths of a percent.        *)
(***************************************************************************)
EXTENDS Integers, Sequences, FiniteSets, TLC

\* Bounds of the model.
MaxRecords == 3
MaxRows == 2
MaxRequests == 3
MaxAppended == 2

None == <<"None">>
NoneRec == [none |-> TRUE]
NoNum == <<>>
Num(n) == <<n>>
NaN == <<"not", "a number">>
Val(o) == o[1]
Scale == 10 * 100

----------------------------------------------------------------------------
(* Characters and Python's str helpers.                                    *)

DigitChars == <<"0", "1", "2", "3", "4", "5", "6", "7", "8", "9">>
UpperChars == <<"A", "B", "C", "D", "E", "F", "G", "H", "I", "J", "K", "L", "M",
                "N", "O", "P", "Q", "R", "S", "T", "U", "V", "W", "X", "Y", "Z">>
LowerChars == <<"a", "b", "c", "d", "e", "f", "g", "h", "i", "j", "k", "l", "m",
                "n", "o", "p", "q", "r", "s", "t", "u", "v", "w", "x", "y", "z">>

IsDigit(c) == \E i \in 1..10 : DigitChars[i] = c
DigitVal(c) == (CHOOSE i \in 1..10 : DigitChars[i] = c) - 1
IsSpace(c) == c \in {" ", "\t", "\n", "\r"}

LowerChar(c) ==
    IF \E i \in 1..26 : UpperChars[i] = c
    THEN LowerChars[CHOOSE i \in 1..26 : UpperChars[i] = c]
    ELSE c

\* str.lower()
PyLower(s) == [i \in 1..Len(s) |-> LowerChar(s[i])]

\* str(value) of a cell: a str is itself, None prints as 'None'.
PyStr(value) == IF value = None THEN <<"N", "o", "n", "e">> ELSE value

RECURSIVE LStrip(_)
LStrip(s) == IF s # <<>> /\ IsSpace(Head(s)) THEN LStrip(Tail(s)) ELSE s

RECURSIVE RStrip(_)
RStrip(s) ==
    IF s # <<>> /\ IsSpace(s[Len(s)]) THEN RStrip(SubSeq(s, 1, Len(s) - 1)) ELSE s

\* str.strip()
PyStrip(s) == RStrip(LStrip(s))

RECURSIVE IntVal(_)
\* The number a run of decimal digits spells.
IntVal(ds) ==
    IF ds = <<>> THEN 0
    ELSE IntVal(SubSeq(ds, 1, Len(ds) - 1)) * 10 + DigitVal(ds[Len(ds)])

AllDigits(s) == \A i \in 1..Len(s) : IsDigit(s[i])

\* The thousandths a fractional digit run spells (digits past the third are
\* below the model's resolution).
FracVal(ds) ==
    LET pad == SubSeq(ds \o <<"0", "0", "0">>, 1, 3) IN IntVal(pad)

\* float(s) on a str, for decimal literals: optional surrounding whitespace,
\* optional sign, digits with at most one point and at least one digit.
\* NoNum stands for the ValueError float() raises, NaN for the float that is
\* not a number, which float() returns for "nan" in any case of its letters.
\* (Exponents, "inf" and digit-group underscores are spellings outside the
\* sampled inputs.)
PyFloat(s) ==
    LET t == PyStrip(s)
        signed == t # <<>> /\ Head(t) \in {"+", "-"}
        body == IF signed THEN Tail(t) ELSE t
        dots == {i \in 1..Len(body) : body[i] = "."}
        dot == IF dots = {} THEN Len(body) + 1 ELSE CHOOSE i \in dots : TRUE
        ip == SubSeq(body, 1, dot - 1)
        fp == SubSeq(body, dot + 1, Len(body))
        mag == IntVal(ip) * Scale + FracVal(fp)
    IN  IF PyLower(body) = <<"n", "a", "n">> THEN NaN
        ELSE IF Cardinality(dots) <= 1 /\ AllDigits(ip) /\ AllDigits(fp)
           /\ Len(ip) + Len(fp) >= 1
        THEN Num(IF signed /\ Head(t) = "-" THEN 0 - mag ELSE mag)
        ELSE NoNum

\* Nearest integer to n/d (d # 0), ties to the even neighbour: the rounding
\* of Python's round().
RoundHalfEven(n, d) ==
    LET nn == IF d < 0 THEN 0 - n ELSE n
        dd == IF d < 0 THEN 0 - d ELSE d
        q == nn \div dd
        r == nn % dd
    IN  IF 2 * r < dd THEN q
        ELSE IF 2 * r > dd THEN q + 1
        ELSE IF q % 2 = 0 THEN q ELSE q + 1

\* round(x, 2) of a value held in thousandths.  A value ending in exactly
\* five thousandths goes where its binary neighbour lies; the sampled
\* records produce no such value.
Round2(x) == 10 * RoundHalfEven(x, 10)

\* round(100 * n / d, 2) as thousandths of a percent.
RoundPct(n, d) == 10 * RoundHalfEven(n * 100 * 100, d)

----------------------------------------------------------------------------
(* Status strings.                                                         *)

S_pending == <<"p", "e", "n", "d", "i", "n", "g">>
S_won == <<"w", "o", "n">>
S_lost == <<"l", "o", "s", "t">>
S_pushed == <<"p", "u", "s", "h", "e", "d">>
S_void == <<"v", "o", "i", "d">>
Statuses == {S_pending, S_won, S_lost, S_pushed}

----------------------------------------------------------------------------
(* Statistics aggregator.                                                  *)

RECURSIVE SumSeq(_)
\* sum(xs)
SumSeq(xs) == IF xs = <<>> THEN 0 ELSE Head(xs) + SumSeq(Tail(xs))

CountStatus(bets, s) == Len(SelectSeq(bets, LAMBDA b : b.status = s))

ZeroStats ==
    [total_bets |-> 0, wins |-> 0, losses |-> 0, pushes |-> 0, pending |-> 0,
     win_rate |-> 0, total_staked |-> 0, total_payout |-> 0, profit_loss |-> 0,
     roi |-> 0]

\* The property Bet.profit_loss
Bet_profit_loss(bet) ==
    IF bet.status = S_won THEN bet.actual_payout - bet.stake
    ELSE IF bet.status = S_lost THEN 0 - bet.stake
    ELSE IF bet.status = S_pushed THEN 0
    ELSE 0

\* What calculate_stats does when a division by zero is evaluated: the
\* ZeroDivisionError leaves the function instead of a summary.
ZeroDivisionError == [raised |-> "ZeroDivisionError"]

\* The conditions of the two conditional expressions: the division is
\* evaluated only when the condition holds.
WinRateGuard(wins, losses) == (wins + losses) > 0

\* A variant that evaluates the division whatever the total stake.
RoiGuard_absent(total_staked) == TRUE

RoiGuard(total_staked) == total_staked > 0

\* A variant that cuts the percentage to two decimals instead of rounding it.
WinRateOf_truncated(wins, losses) == 10 * ((wins * 100 * 100) \div (wins + losses))

WinRateOf(wins, losses) == RoundPct(wins, wins + losses)
RoiOf(profit_loss, total_staked) == RoundPct(profit_loss, total_staked)

calculate_stats(bets) ==
    IF bets = <<>> THEN ZeroStats
    ELSE
        LET wins == CountStatus(bets, S_won)
            losses == CountStatus(bets, S_lost)
            total_staked == SumSeq([i \in 1..Len(bets) |-> bets[i].stake])
            total_payout == SumSeq([i \in 1..Len(bets) |-> bets[i].actual_payout])
            profit_loss == total_payout - total_staked
        IN  IF \/ WinRateGuard(wins, losses) /\ wins + losses = 0
               \/ RoiGuard(total_staked) /\ total_staked = 0
            THEN ZeroDivisionError
            ELSE
            [total_bets |-> Len(bets),
             wins |-> wins,
             losses |-> losses,
             pushes |-> CountStatus(bets, S_pushed),
             pending |-> CountStatus(bets, S_pending),
             win_rate |-> IF WinRateGuard(wins, losses)
                          THEN WinRateOf(wins, losses) ELSE 0,
             total_staked |-> Round2(total_staked),
             total_payout |-> Round2(total_payout),
             profit_loss |-> Round2(profit_loss),
             roi |-> IF RoiGuard(total_staked)
                     THEN RoiOf(profit_loss, total_staked) ELSE 0]

----------------------------------------------------------------------------
(* Dates: datetime.strptime, strftime and isocalendar.  A date is the      *)
(* tuple <<year, month, day>>; NoNum stands for strptime's ValueError.     *)

RECURSIVE SplitOn(_, _)
\* s.split(sep) for a one-character separator.
SplitOn(s, sep) ==
    LET hits == {i \in 1..Len(s) : s[i] = sep} IN
    IF hits = {} THEN <<s>>
    ELSE LET i == CHOOSE j \in hits : \A k \in hits : j <= k
         IN  <<SubSeq(s, 1, i - 1)>> \o SplitOn(SubSeq(s, i + 1, Len(s)), sep)

IsLeap(y) == y % 4 = 0 /\ (y % 100 # 0 \/ y % 400 = 0)

DaysInMonth(y, m) ==
    IF m = 2 THEN (IF IsLeap(y) THEN 29 ELSE 28)
    ELSE IF m \in {4, 6, 9, 11} THEN 30 ELSE 31

\* The digits of a %d field: one or two digits, or a blank and a digit.
DayDigits(ds) ==
    IF Len(ds) = 2 /\ ds[1] = " " THEN <<ds[2]>> ELSE ds

\* The fields %Y, %m and %d accept: four digits; one or two digits spelling
\* 1..12; one or two digits (or a blank and a digit) spelling 1..31; and
\* then a day the month has.
FieldsToDate(ys, ms, ds) ==
    IF /\ Len(ys) = 4 /\ AllDigits(ys) /\ IntVal(ys) >= 1
       /\ Len(ms) \in {1, 2} /\ AllDigits(ms) /\ IntVal(ms) \in 1..12
       /\ Len(ds) \in {1, 2} /\ AllDigits(DayDigits(ds))
       /\ IntVal(DayDigits(ds)) >= 1
       /\ IntVal(DayDigits(ds)) <= DaysInMonth(IntVal(ys), IntVal(ms))
    THEN <<IntVal(ys), IntVal(ms), IntVal(DayDigits(ds))>>
    ELSE NoNum

\* datetime.strptime(s, '%Y-%m-%d')
strptime_iso(s) ==
    LET p == SplitOn(s, "-") IN
    IF Len(p) = 3 THEN FieldsToDate(p[1], p[2], p[3]) ELSE NoNum

\* datetime.strptime(s, '%m/%d/%Y')
strptime_us(s) ==
    LET p == SplitOn(s, "/") IN
    IF Len(p) = 3 THEN FieldsToDate(p[3], p[1], p[2]) ELSE NoNum

RECURSIVE IntToStr(_)
\* str(n) for n >= 0
IntToStr(n) ==
    IF n < 10 THEN <<DigitChars[n + 1]>>
    ELSE IntToStr(n \div 10) \o <<DigitChars[(n % 10) + 1]>>

RECURSIVE ZeroPad(_, _)
ZeroPad(s, width) == IF Len(s) >= width THEN s ELSE ZeroPad(<<"0">> \o s, width)

\* date.strftime('%Y-%m-%d').  %m and %d are two digits everywhere; %Y is
\* what the platform's C library prints: four digits where it pads the year,
\* the bare number (5 for the year 5) where it does not (glibc).
strftime_iso(date, pads_year) ==
    (IF pads_year THEN ZeroPad(IntToStr(date[1]), 4) ELSE IntToStr(date[1]))
    \o <<"-">> \o ZeroPad(IntToStr(date[2]), 2)
    \o <<"-">> \o ZeroPad(IntToStr(date[3]), 2)

\* Proleptic Gregorian ordinal of a date (January 1 of year 1 is day 1).
DaysBeforeYear(y) ==
    (y - 1) * 365 + ((y - 1) \div 4) - ((y - 1) \div 100) + ((y - 1) \div 400)

RECURSIVE DaysBeforeMonth(_, _)
DaysBeforeMonth(y, m) ==
    IF m = 1 THEN 0 ELSE DaysBeforeMonth(y, m - 1) + DaysInMonth(y, m - 1)

ToOrdinal(date) == DaysBeforeYear(date[1]) + DaysBeforeMonth(date[1], date[2]) + date[3]

\* The ordinal of the Monday that starts ISO week 1 of a year.
IsoWeek1Monday(year) ==
    LET firstday == ToOrdinal(<<year, 1, 1>>)
        firstweekday == (firstday + 6) % 7
        week1monday == firstday - firstweekday
    IN  IF firstweekday > 3 THEN week1monday + 7 ELSE week1monday

\* date.isocalendar()[1]
get_week_number(date) ==
    LET today == ToOrdinal(date)
        week == (today - IsoWeek1Monday(date[1])) \div 7
    IN  IF week < 0
        THEN ((today - IsoWeek1Monday(date[1] - 1)) \div 7) + 1
        ELSE IF week >= 52 /\ today >= IsoWeek1Monday(date[1] + 1)
        THEN 1
        ELSE week + 1

----------------------------------------------------------------------------
(* CSV import pipeline.                                                    *)
(*                                                                         *)
(* A file is Unreadable (open() raises), or a record [sniffs, header,      *)
(* rows]: whether csv.Sniffer finds a delimiter in the sample (a heuristic *)
(* of the library, so an input), the header row's column names, and the    *)
(* lines after it.  A line is the tuple of its cells, the empty tuple      *)
(* being a blank line, or holds a byte that is not UTF-8: Undecodable when *)
(* it lies in the first buffer of the file, so that reading the sample     *)
(* raises UnicodeDecodeError, UndecodableLater when it lies past it, so    *)
(* that the reader raises when the loop reaches it.                        *)
(* Column names are atoms; an error message is the tuple of its pieces.    *)

required_columns ==
    <<"date", "bet_type", "sport", "game_description", "bet_description",
      "odds", "stake", "potential_payout">>
optional_columns == <<"status", "actual_payout">>

Unreadable == [unreadable |-> TRUE]
Undecodable == <<None, None>>
UndecodableLater == <<None, None, None>>

\* One row as csv.DictReader yields it: a cell for each column the line
\* reaches, restval None for the columns past its end.
DictRow(fieldnames, line) ==
    [col \in {fieldnames[i] : i \in 1..Len(fieldnames)} |->
        LET i == CHOOSE j \in 1..Len(fieldnames) : fieldnames[j] = col
        IN  IF i <= Len(line) THEN line[i] ELSE None]

\* row.get(key, default)
DictGet(row, key, default) == IF key \in DOMAIN row THEN row[key] ELSE default

\* re.sub(r'[$,\s]', '', s)
StripCurrency(s) == SelectSeq(s, LAMBDA c : c \notin {"$", ","} /\ ~IsSpace(c))

S_nan == <<"n", "a", "n">>

_clean_numeric(value) ==
    IF value = None \/ value = <<>> \/ PyLower(PyStr(value)) = S_nan
    THEN NoNum
    ELSE PyFloat(StripCurrency(PyStr(value)))

_clean_text(value) ==
    IF value = None \/ PyLower(PyStr(value)) = S_nan
    THEN <<>>
    ELSE PyStrip(PyStr(value))

\* The date a row gets: ISO first, then month/day/year, then the clock.
ParseRowDate(date_str, now, pads_year) ==
    IF strptime_iso(date_str) # NoNum
    THEN strftime_iso(strptime_iso(date_str), pads_year)
    ELSE IF strptime_us(date_str) # NoNum
    THEN strftime_iso(strptime_us(date_str), pads_year)
    ELSE strftime_iso(now, pads_year)

\* Python's truth value of an Optional[float]: None and 0.0 are false.
Truthy(o) == o # NoNum /\ Val(o) # 0

\* "if not stake or not potential_payout: return None"
RowRejected(stake, potential_payout) == ~Truthy(stake) \/ ~Truthy(potential_payout)

\* row.get('status', 'pending') and row.get('actual_payout', 0)
StatusCell(row) == DictGet(row, "status", S_pending)
ActualPayoutCell(row) == DictGet(row, "actual_payout", <<"0">>)

\* The bet record of a row, or None (NoneRec).
_process_row(row, now, pads_year) ==
    LET parsed_date == ParseRowDate(PyStr(row["date"]), now, pads_year)
        stake == _clean_numeric(row["stake"])
        potential_payout == _clean_numeric(row["potential_payout"])
        actual == _clean_numeric(ActualPayoutCell(row))
    IN  IF RowRejected(stake, potential_payout) THEN NoneRec
        ELSE [date |-> parsed_date,
              bet_type |-> _clean_text(row["bet_type"]),
              sport |-> _clean_text(row["sport"]),
              game_description |-> _clean_text(row["game_description"]),
              bet_description |-> _clean_text(row["bet_description"]),
              odds |-> _clean_text(row["odds"]),
              stake |-> Val(stake),
              potential_payout |-> Val(potential_payout),
              status |-> _clean_text(StatusCell(row)),
              actual_payout |-> IF Truthy(actual) THEN Val(actual) ELSE 0]

\* A failure result: the keys the two failure returns carry.
ImportFailure(error) == [success |-> FALSE, error |-> error, bets |-> <<>>]

RECURSIVE JoinNames(_)
\* ", ".join(names)
JoinNames(names) ==
    IF Len(names) <= 1 THEN names
    ELSE <<Head(names), ", ">> \o JoinNames(Tail(names))

MissingColumns(fieldnames) ==
    SelectSeq(required_columns,
              LAMBDA col : \A i \in 1..Len(fieldnames) : fieldnames[i] # col)

\* A variant that numbers the rows from 0.
SkipEntry_from_zero(index) == <<"Row ", index - 1, ": ", "Invalid data">>

\* The entry a rejected row leaves in skipped.
SkipEntry(index) == <<"Row ", index, ": ", "Invalid data">>

RECURSIVE ProcessRows(_, _, _, _, _, _)
\* The loop over enumerate(reader, start=1): results after the rows from
\* `index` on have been processed.
ProcessRows(fieldnames, lines, index, results, now, pads_year) ==
    IF index > Len(lines) THEN results
    ELSE
        LET bet_data == _process_row(DictRow(fieldnames, lines[index]), now, pads_year)
        IN  ProcessRows(fieldnames, lines, index + 1,
                IF bet_data # NoneRec
                THEN [results EXCEPT !.bets = Append(@, bet_data)]
                ELSE [results EXCEPT !.skipped = Append(@, SkipEntry(index))],
                now, pads_year)

\* The rows csv.DictReader yields: it drops blank lines.
ReaderRows(file) == SelectSeq(file.rows, LAMBDA line : line # <<>>)

_process_csv_reader(file, now, pads_year) ==
    LET fieldnames == file.header
        missing_columns == MissingColumns(fieldnames)
    IN  IF missing_columns # <<>>
        THEN ImportFailure(<<"Missing required columns: ">> \o JoinNames(missing_columns))
        ELSE IF \E i \in 1..Len(file.rows) : file.rows[i] = UndecodableLater
        THEN ImportFailure(<<"'utf-8' codec can't decode byte">>)
        ELSE ProcessRows(fieldnames, ReaderRows(file), 1,
                         [success |-> TRUE, error |-> None, bets |-> <<>>,
                          skipped |-> <<>>],
                         now, pads_year)

import_from_csv(file, now, pads_year) ==
    IF file = Unreadable
    THEN ImportFailure(<<"[Errno 2] No such file or directory">>)
    ELSE IF \E i \in 1..Len(file.rows) : file.rows[i] = Undecodable
    THEN ImportFailure(<<"'utf-8' codec can't decode byte">>)
    ELSE IF ~file.sniffs
    THEN ImportFailure(<<"Could not determine delimiter">>)
    ELSE _process_csv_reader(file, now, pads_year)

----------------------------------------------------------------------------
(* The template file: generate_template_csv writes it with csv.DictWriter, *)
(* import_from_csv reads it back with csv.Sniffer and csv.DictReader.  The *)
(* content of a file on disk is its text, a str.                           *)
(* The sniffer and the reader are modelled for text without quote          *)
(* characters and of at most ten lines within the 1024-character sample.   *)

\* The spelling of each column name in a header row.
ColumnChars ==
   [date |-> <<"d", "a", "t", "e">>,
       bet_type |-> <<"b", "e", "t", "_", "t", "y", "p", "e">>,
       sport |-> <<"s", "p", "o", "r", "t">>,
       game_description |-> <<"g", "a", "m", "e", "_", "d", "e", "s", "c", "r", "i", "p",
        "t", "i", "o", "n">>,
       bet_description |-> <<"b", "e", "t", "_", "d", "e", "s", "c", "r", "i", "p", "t",
        "i", "o", "n">>,
       odds |-> <<"o", "d", "d", "s">>,
       stake |-> <<"s", "t", "a", "k", "e">>,
       potential_payout |-> <<"p", "o", "t", "e", "n", "t", "i", "a", "l", "_", "p", "a",
        "y", "o", "u", "t">>,
       status |-> <<"s", "t", "a", "t", "u", "s">>,
       actual_payout |-> <<"a", "c", "t", "u", "a", "l", "_", "p", "a", "y", "o", "u",
        "t">>]

\* The two example rows of the template.
template_rows ==
    <<
    [date |-> <<"2", "0", "2", "4", "-", "0", "1", "-", "1", "5">>,
     bet_type |-> <<"s", "p", "r", "e", "a", "d">>,
     sport |-> <<"N", "F", "L">>,
     game_description |-> <<"C", "h", "i", "e", "f", "s", " ", "v", "s", " ", "B",
            "i", "l", "l", "s">>,
     bet_description |-> <<"C", "h", "i", "e", "f", "s", " ", "-", "3", ".",
            "5">>,
     odds |-> <<"-", "1", "1", "0">>,
     stake |-> <<"2", "5", ".", "0", "0">>,
     potential_payout |-> <<"4", "7", ".", "7", "3">>,
     status |-> <<"w", "o", "n">>,
     actual_payout |-> <<"4", "7", ".", "7", "3">>],
    [date |-> <<"2", "0", "2", "4", "-", "0", "1", "-", "1", "6">>,
     bet_type |-> <<"m", "o", "n", "e", "y", "l", "i", "n", "e">>,
     sport |-> <<"N", "B", "A">>,
     game_description |-> <<"L", "a", "k", "e", "r", "s", " ", "v", "s", " ", "W",
            "a", "r", "r", "i", "o", "r", "s">>,
     bet_description |-> <<"L", "a", "k", "e", "r", "s", " ", "M", "L">>,
     odds |-> <<"+", "1", "5", "0">>,
     stake |-> <<"5", "0", ".", "0", "0">>,
     potential_payout |-> <<"1", "2", "5", ".", "0", "0">>,
     status |-> <<"p", "e", "n", "d", "i", "n", "g">>,
     actual_payout |-> <<"0", ".", "0", "0">>]
    >>

\* QUOTE_MINIMAL of csv.writer: a cell holding the delimiter, a quote or a
\* line break is written between quotes, its own quotes doubled.
NeedsQuote(cell) == \E i \in 1..Len(cell) : cell[i] \in {",", "\"", "\r", "\n"}

RECURSIVE DoubleQuotes(_)
DoubleQuotes(s) ==
    IF s = <<>> THEN <<>>
    ELSE (IF Head(s) = "\"" THEN <<"\"", "\"">> ELSE <<Head(s)>>)
         \o DoubleQuotes(Tail(s))

WriteCell(cell) ==
    IF NeedsQuote(cell) THEN <<"\"">> \o DoubleQuotes(cell) \o <<"\"">> ELSE cell

RECURSIVE JoinCells(_)
JoinCells(cells) ==
    IF cells = <<>> THEN <<>>
    ELSE IF Len(cells) = 1 THEN WriteCell(cells[1])
    ELSE WriteCell(Head(cells)) \o <<",">> \o JoinCells(Tail(cells))

\* writer.writerow: the cells separated by commas, then "\r\n".
WriteRow(cells) == JoinCells(cells) \o <<"\r", "\n">>

\* DictWriter.writerow: the cell of each field name, '' where the row has
\* none.
WriteDictRow(fieldnames, rowdict) ==
    WriteRow([i \in 1..Len(fieldnames) |->
                 IF fieldnames[i] \in DOMAIN rowdict
                 THEN rowdict[fieldnames[i]] ELSE <<>>])

RECURSIVE WriteRows(_, _)
\* DictWriter.writerows
WriteRows(fieldnames, rowdicts) ==
    IF rowdicts = <<>> THEN <<>>
    ELSE WriteDictRow(fieldnames, Head(rowdicts))
         \o WriteRows(fieldnames, Tail(rowdicts))

\* A variant that writes the rows without the header row.
generate_template_csv_no_header ==
    WriteRows(required_columns \o optional_columns, template_rows)

\* The text generate_template_csv leaves in the file it was given.
generate_template_csv ==
    LET fieldnames == required_columns \o optional_columns
    IN  WriteDictRow(fieldnames, ColumnChars) \o WriteRows(fieldnames, template_rows)

\* The 7-bit characters in code order (the backquote and the control
\* characters other than tab and the line breaks left out).
AsciiOrder ==
    <<"\t", "\n", "\r", " ", "!", "\"", "#", "$", "%", "&", "'", "(",
      ")", "*", "+", ",", "-", ".", "/", "0", "1", "2", "3", "4", "5",
      "6", "7", "8", "9", ":", ";", "<", "=", ">", "?", "@", "A", "B",
      "C", "D", "E", "F", "G", "H", "I", "J", "K", "L", "M", "N", "O",
      "P", "Q", "R", "S", "T", "U", "V", "W", "X", "Y", "Z", "[", "\\",
      "]", "^", "_", "a", "b", "c", "d", "e", "f", "g", "h", "i",
      "j", "k", "l", "m", "n", "o", "p", "q", "r", "s", "t", "u", "v",
      "w", "x", "y", "z", "{", "|", "}", "~">>

Ord(c) == CHOOSE i \in 1..Len(AsciiOrder) : AsciiOrder[i] = c

\* line.count(c)
Count(line, c) == Cardinality({i \in 1..Len(line) : line[i] = c})

RECURSIVE CountPair(_, _, _, _)
\* line.count(a + b) from position i on: occurrences that do not overlap.
CountPair(line, a, b, i) ==
    IF i >= Len(line) THEN 0
    ELSE IF line[i] = a /\ line[i + 1] = b THEN 1 + CountPair(line, a, b, i + 2)
    ELSE CountPair(line, a, b, i + 1)

\* The lines of the sample that are not empty (split at the line feed, a
\* carriage return before it staying with its line).
SniffLines(sample) == SelectSeq(SplitOn(sample, "\n"), LAMBDA line : line # <<>>)

\* The characters Sniffer._guess_delimiter keeps for one chunk of at most
\* ten lines: those that occur the same positive number of times on every
\* line (with fewer than a full share of the lines behind its mode a
\* character stays under the 0.9 threshold).
ConsistentChars(lines) ==
    IF lines = <<>> THEN {}
    ELSE {c \in {lines[1][i] : i \in 1..Len(lines[1])} :
             \A k \in 1..Len(lines) : Count(lines[k], c) = Count(lines[1], c)}

NoDelimiter == <<>>
preferred == <<",", "\t", ";", " ", ":">>

\* The delimiter Sniffer.sniff settles on, as a one-character str, or
\* NoDelimiter when it raises "Could not determine delimiter".
SniffDelimiter(sample) ==
    LET lines == SniffLines(sample)
        delims == ConsistentChars(lines)
    IN  IF delims = {} THEN NoDelimiter
        ELSE IF Cardinality(delims) = 1 THEN <<CHOOSE c \in delims : TRUE>>
        ELSE IF \E p \in 1..Len(preferred) : preferred[p] \in delims
        THEN <<preferred[CHOOSE p \in 1..Len(preferred) :
                   /\ preferred[p] \in delims
                   /\ \A q \in 1..(p - 1) : preferred[q] \notin delims]>>
        ELSE <<CHOOSE c \in delims :
                   \A d \in delims :
                       \/ Count(lines[1], d) < Count(lines[1], c)
                       \/ /\ Count(lines[1], d) = Count(lines[1], c)
                          /\ Ord(d) <= Ord(c)>>

\* The dialect's skipinitialspace: every delimiter of the first line is
\* followed by a blank.
SkipInitialSpace(sample, delim) ==
    LET first == SniffLines(sample)[1]
    IN  Count(first, delim) = CountPair(first, delim, " ", 1)

\* Position i holds the last character of a line break: a line feed, or
\* a carriage return that no line feed follows.
EndsBreak(text, i) ==
    \/ text[i] = "\n"
    \/ text[i] = "\r" /\ ~(i < Len(text) /\ text[i + 1] = "\n")

RECURSIVE SplitLines(_, _, _)
\* The records the reader sees from position i on: "\r\n", "\r" and "\n"
\* end a record; `line` is the part of the current record already read.
SplitLines(text, i, line) ==
    LET ends == {e \in i..Len(text) : EndsBreak(text, e)} IN
    IF ends = {}
    THEN (IF line \o SubSeq(text, i, Len(text)) = <<>> THEN <<>>
          ELSE <<line \o SubSeq(text, i, Len(text))>>)
    ELSE LET e == CHOOSE x \in ends : \A y \in ends : x <= y
             last == IF text[e] = "\n" /\ e > i /\ text[e - 1] = "\r"
                     THEN e - 2 ELSE e - 1
         IN  <<line \o SubSeq(text, i, last)>> \o SplitLines(text, e + 1, <<>>)

RECURSIVE DropBlanks(_)
\* The field without the blanks that open it.
DropBlanks(s) == IF s # <<>> /\ Head(s) = " " THEN DropBlanks(Tail(s)) ELSE s

\* The fields of one record: split at the delimiter, the blanks that open
\* a field dropped when skipinitialspace is set.  A blank line has none.
Fields(line, delim, skipinitialspace) ==
    IF line = <<>> THEN <<>>
    ELSE LET cells == SplitOn(line, delim)
         IN  [i \in 1..Len(cells) |->
                 IF skipinitialspace
                 THEN DropBlanks(cells[i])
                 ELSE cells[i]]

\* The column a header cell names; "?" for a cell that spells none.
ColumnOf(cell) ==
    IF \E col \in DOMAIN ColumnChars : ColumnChars[col] = cell
    THEN CHOOSE col \in DOMAIN ColumnChars : ColumnChars[col] = cell
    ELSE "?"

\* open(), the read of the sample, Sniffer.sniff and DictReader on a file
\* with this text.
OpenCsv(text) ==
    LET sample == SubSeq(text, 1, IF Len(text) < 1024 THEN Len(text) ELSE 1024)
        delim == SniffDelimiter(sample)
    IN  IF delim = NoDelimiter
        THEN [sniffs |-> FALSE, header |-> <<>>, rows |-> <<>>]
        ELSE LET skip == SkipInitialSpace(sample, delim[1])
                 lines == SplitLines(text, 1, <<>>)
                 first == IF lines = <<>> THEN <<>>
                          ELSE Fields(lines[1], delim[1], skip)
             IN  [sniffs |-> TRUE,
                  header |-> [i \in 1..Len(first) |-> ColumnOf(first[i])],
                  rows |-> [k \in 1..(Len(lines) - 1) |->
                               Fields(lines[k + 1], delim[1], skip)]]

----------------------------------------------------------------------------
(* Email pattern extractor (email_parser.py).  The three sportsbooks carry *)
(* the same five field patterns, so a pattern is named by its field.       *)

W_fanduel == <<"f", "a", "n", "d", "u", "e", "l">>
W_draftkings == <<"d", "r", "a", "f", "t", "k", "i", "n", "g", "s">>
W_caesars == <<"c", "a", "e", "s", "a", "r", "s">>
W_bet == <<"b", "e", "t">>
W_confirmation == <<"c", "o", "n", "f", "i", "r", "m", "a", "t", "i", "o", "n">>
W_your == <<"y", "o", "u", "r">>
W_vs == <<"v", "s">>
W_win == <<"w", "i", "n">>
W_payout == <<"p", "a", "y", "o", "u", "t">>
W_Other == <<"O", "t", "h", "e", "r">>
W_unknown == <<"u", "n", "k", "n", "o", "w", "n">>
W_UnknownGame == <<"U", "n", "k", "n", "o", "w", "n", " ", "G", "a", "m", "e">>
W_plus100 == <<"+", "1", "0", "0">>

\* The keys of sportsbook_patterns, in insertion order.
Sportsbooks == <<W_fanduel, W_draftkings, W_caesars>>

\* The lower-cased pattern word stands at position i of text.
WordAt(text, i, word) ==
    /\ i >= 1
    /\ i + Len(word) - 1 <= Len(text)
    /\ \A k \in 1..Len(word) : LowerChar(text[i + k - 1]) = word[k]

\* word in text.lower()
Contains(text, word) == \E i \in 1..Len(text) : WordAt(text, i, word)

\* The first position from i on whose character is not in the class (one
\* past the end if none): where a greedy run of the class that starts at i
\* stops.
RunEnd(text, i, InClass(_)) ==
    CHOOSE j \in i..(Len(text) + 1) :
        /\ j = Len(text) + 1 \/ ~InClass(text[j])
        /\ \A k \in i..(j - 1) : InClass(text[k])

IsLetter(c) == \E i \in 1..26 : UpperChars[i] = c \/ LowerChars[i] = c
IsGameChar(c) == IsLetter(c) \/ IsSpace(c)

Least(S) == CHOOSE i \in S : \A j \in S : i <= j
Greatest(S) == CHOOSE i \in S : \A j \in S : i >= j

\* re.search of '<name>.*bet.*confirmation|your <name> bet' in the
\* lower-cased text; '.' does not match a line break.
SubjectPatternMatches(text, name) ==
    \/ \E i \in 1..Len(text) :
          /\ WordAt(text, i, name)
          /\ \E j \in (i + Len(name))..Len(text) :
                /\ WordAt(text, j, W_bet)
                /\ \E k \in (j + Len(W_bet))..Len(text) :
                      /\ WordAt(text, k, W_confirmation)
                      /\ \A n \in i..k : text[n] # "\n"
    \/ Contains(text, W_your \o <<" ">> \o name \o <<" ">> \o W_bet)

_identify_sportsbook(subject, content) ==
    LET text == PyLower(subject \o <<" ">> \o content)
        byPattern == {n \in 1..Len(Sportsbooks) : SubjectPatternMatches(text, Sportsbooks[n])}
        byName == {n \in 1..Len(Sportsbooks) : Contains(text, Sportsbooks[n])}
    IN  IF byPattern # {} THEN Sportsbooks[Least(byPattern)]
        ELSE IF byName # {} THEN Sportsbooks[Least(byName)]
        ELSE None

\* The end of a match of \d+\.?\d* that starts at position i (a digit).
AmountEnd(text, i) ==
    LET d == RunEnd(text, i, IsDigit)
    IN  IF d <= Len(text) /\ text[d] = "." THEN RunEnd(text, d + 1, IsDigit) ELSE d

\* ([+-]\d+)
ExtractOdds(text) ==
    LET starts == {i \in 1..(Len(text) - 1) : text[i] \in {"+", "-"} /\ IsDigit(text[i + 1])}
    IN  IF starts = {} THEN <<>>
        ELSE LET i == Least(starts)
             IN  SubSeq(text, i, RunEnd(text, i + 1, IsDigit) - 1)

\* \$(\d+\.?\d*)
ExtractStake(text) ==
    LET starts == {i \in 1..(Len(text) - 1) : text[i] = "$" /\ IsDigit(text[i + 1])}
    IN  IF starts = {} THEN <<>>
        ELSE LET i == Least(starts)
             IN  SubSeq(text, i + 1, AmountEnd(text, i + 1) - 1)

\* Where the amount of 'Win:\s*\$(\d+...' or 'Payout:\s*\$(\d+...' starts
\* for a match that begins at i; 0 if none begins there.
PayoutAmountStart(text, i) ==
    LET afterWord(word) == RunEnd(text, i + Len(word) + 1, IsSpace)
        hit(word) ==
            /\ WordAt(text, i, word)
            /\ i + Len(word) <= Len(text) /\ text[i + Len(word)] = ":"
            /\ afterWord(word) < Len(text)
            /\ text[afterWord(word)] = "$"
            /\ IsDigit(text[afterWord(word) + 1])
    IN  IF hit(W_win) THEN afterWord(W_win) + 1
        ELSE IF hit(W_payout) THEN afterWord(W_payout) + 1
        ELSE 0

\* Win:\s*\$(\d+\.?\d*)|Payout:\s*\$(\d+\.?\d*)
ExtractPotentialPayout(text) ==
    LET starts == {i \in 1..Len(text) : PayoutAmountStart(text, i) # 0}
    IN  IF starts = {} THEN <<>>
        ELSE LET a == PayoutAmountStart(text, Least(starts))
             IN  SubSeq(text, a, AmountEnd(text, a) - 1)

BetTypeWords ==
    <<<<"s", "p", "r", "e", "a", "d">>,
      <<"m", "o", "n", "e", "y", "l", "i", "n", "e">>,
      <<"o", "v", "e", "r">>, <<"u", "n", "d", "e", "r">>,
      <<"t", "o", "t", "a", "l">>, <<"p", "a", "r", "l", "a", "y">>>>

\* (Spread|Moneyline|Over|Under|Total|Parlay)
ExtractBetType(text) ==
    LET wordsAt(i) == {w \in 1..Len(BetTypeWords) : WordAt(text, i, BetTypeWords[w])}
        starts == {i \in 1..Len(text) : wordsAt(i) # {}}
    IN  IF starts = {} THEN <<>>
        ELSE LET i == Least(starts)
             IN  SubSeq(text, i, i + Len(BetTypeWords[Least(wordsAt(i))]) - 1)

\* The length of 'vs' or '@' at position i, 0 if neither stands there.
SeparatorLen(text, i) ==
    IF WordAt(text, i, W_vs) THEN 2
    ELSE IF i <= Len(text) /\ text[i] = "@" THEN 1
    ELSE 0

\* The position after a separator at i, and after the full stop 'vs' may
\* carry.
AfterSeparator(text, i) ==
    LET p == i + SeparatorLen(text, i)
    IN  IF SeparatorLen(text, i) = 2 /\ p <= Len(text) /\ text[p] = "."
        THEN p + 1 ELSE p

\* (?:vs\.?|@)\s*([A-Za-z\s]+(?:vs\.?|@)\s*[A-Za-z\s]+): the text from the
\* first separator's end to the end of the match that begins at i, or <<>>.
\* The first run of letters and blanks is greedy, so the second separator is
\* the last one that run reaches and that letters or blanks follow.
GameMatchAt(text, i) ==
    IF SeparatorLen(text, i) = 0 THEN <<>>
    ELSE
        LET q == AfterSeparator(text, i)
            endRun == RunEnd(text, q, IsGameChar)
            seconds == {s \in (q + 1)..endRun :
                          /\ SeparatorLen(text, s) # 0
                          /\ AfterSeparator(text, s) <= Len(text)
                          /\ IsGameChar(text[AfterSeparator(text, s)])}
        IN  IF seconds = {} THEN <<>>
            ELSE SubSeq(text, q,
                        RunEnd(text, AfterSeparator(text, Greatest(seconds)), IsGameChar) - 1)

ExtractGame(text) ==
    LET starts == {i \in 1..Len(text) : GameMatchAt(text, i) # <<>>}
    IN  IF starts = {} THEN <<>> ELSE GameMatchAt(text, Least(starts))

\* _extract_pattern(text, patterns.get(field, '')): the first non-empty
\* group of the leftmost match, stripped; the empty string without a match.
_extract_pattern(text, field) ==
    PyStrip(CASE field = "odds" -> ExtractOdds(text)
              [] field = "stake" -> ExtractStake(text)
              [] field = "potential_payout" -> ExtractPotentialPayout(text)
              [] field = "bet_type" -> ExtractBetType(text)
              [] field = "game" -> ExtractGame(text)
              [] OTHER -> <<>>)

\* sports_keywords, in insertion order.
SportsKeywords ==
    <<
      [sport |-> <<"N", "F", "L">>,
       keywords |-> {<<"n", "f", "l">>,
                     <<"f", "o", "o", "t", "b", "a", "l", "l">>,
                     <<"p", "a", "t", "r", "i", "o", "t", "s">>,
                     <<"c", "h", "i", "e", "f", "s">>,
                     <<"c", "o", "w", "b", "o", "y", "s">>}],
      [sport |-> <<"N", "B", "A">>,
       keywords |-> {<<"n", "b", "a">>,
                     <<"b", "a", "s", "k", "e", "t", "b", "a", "l", "l">>,
                     <<"l", "a", "k", "e", "r", "s">>,
                     <<"w", "a", "r", "r", "i", "o", "r", "s">>,
                     <<"c", "e", "l", "t", "i", "c", "s">>}],
      [sport |-> <<"M", "L", "B">>,
       keywords |-> {<<"m", "l", "b">>,
                     <<"b", "a", "s", "e", "b", "a", "l", "l">>,
                     <<"y", "a", "n", "k", "e", "e", "s">>,
                     <<"d", "o", "d", "g", "e", "r", "s">>,
                     <<"r", "e", "d", " ", "s", "o", "x">>}],
      [sport |-> <<"N", "H", "L">>,
       keywords |-> {<<"n", "h", "l">>,
                     <<"h", "o", "c", "k", "e", "y">>,
                     <<"r", "a", "n", "g", "e", "r", "s">>,
                     <<"b", "r", "u", "i", "n", "s">>,
                     <<"p", "e", "n", "g", "u", "i", "n", "s">>}],
      [sport |-> <<"S", "o", "c", "c", "e", "r">>,
       keywords |-> {<<"s", "o", "c", "c", "e", "r">>,
                     <<"m", "l", "s">>,
                     <<"p", "r", "e", "m", "i", "e", "r", " ", "l", "e", "a", "g", "u", "e">>,
                     <<"c", "h", "a", "m", "p", "i", "o", "n", "s", " ", "l", "e", "a", "g", "u", "e">>}],
      [sport |-> <<"T", "e", "n", "n", "i", "s">>,
       keywords |-> {<<"t", "e", "n", "n", "i", "s">>,
                     <<"a", "t", "p">>,
                     <<"w", "t", "a">>,
                     <<"w", "i", "m", "b", "l", "e", "d", "o", "n">>,
                     <<"u", "s", " ", "o", "p", "e", "n">>}],
      [sport |-> <<"G", "o", "l", "f">>,
       keywords |-> {<<"g", "o", "l", "f">>,
                     <<"p", "g", "a">>,
                     <<"m", "a", "s", "t", "e", "r", "s">>,
                     <<"o", "p", "e", "n", " ", "c", "h", "a", "m", "p", "i", "o", "n", "s", "h", "i", "p">>}]
    >>

_extract_sport(content) ==
    LET content_lower == PyLower(content)
        hits == {n \in 1..Len(SportsKeywords) :
                    \E k \in SportsKeywords[n].keywords : Contains(content_lower, k)}
    IN  IF hits = {} THEN W_Other ELSE SportsKeywords[Least(hits)].sport

RECURSIVE CollapseSpaces(_)
\* re.sub(r'\s+', ' ', s)
CollapseSpaces(s) ==
    IF s = <<>> THEN <<>>
    ELSE IF IsSpace(Head(s)) THEN <<" ">> \o CollapseSpaces(LStrip(s))
    ELSE <<Head(s)>> \o CollapseSpaces(Tail(s))

_clean_bet_data(bet_data) ==
    [bet_data EXCEPT
        !.odds = SelectSeq(@, LAMBDA c : IsDigit(c) \/ c \in {"+", "-"}),
        !.stake = SelectSeq(@, LAMBDA c : IsDigit(c) \/ c = "."),
        !.potential_payout = SelectSeq(@, LAMBDA c : IsDigit(c) \/ c = "."),
        !.game_description = PyStrip(CollapseSpaces(@))]

_validate_bet_data_stake_only(bet_data) == bet_data.stake # <<>>

_validate_bet_data(bet_data) == bet_data.stake # <<>> /\ bet_data.odds # <<>>

\* The parsed bet, or None (NoneRec).
parse_email(email_content, email_subject, now, pads_year) ==
    LET sportsbook == _identify_sportsbook(email_subject, email_content) IN
    IF sportsbook = None THEN NoneRec
    ELSE
        LET bet_data == _clean_bet_data(
                [sportsbook |-> sportsbook,
                 date |-> strftime_iso(now, pads_year),
                 sport |-> _extract_sport(email_content),
                 bet_type |-> _extract_pattern(email_content, "bet_type"),
                 game_description |-> _extract_pattern(email_content, "game"),
                 odds |-> _extract_pattern(email_content, "odds"),
                 stake |-> _extract_pattern(email_content, "stake"),
                 potential_payout |->
                     _extract_pattern(email_content, "potential_payout")])
        IN  IF _validate_bet_data(bet_data) THEN bet_data ELSE NoneRec

----------------------------------------------------------------------------
(* The request handlers of app.py.  The database is the sequence of Bet    *)
(* rows in insertion order; a row's id is its position (no handler deletes *)
(* a row).  A handler that raises sends a 500 and commits nothing.  Every  *)
(* handler is behind login_required: current_user is the user whose        *)
(* session the request carries, one of Users.                              *)

Users == {1, 2}

\* Bet(...) as add_bet, handle_csv_import and handle_email_import build it.
NewBet(bet_date, f, stake, potential_payout, status, actual_payout, user) ==
    [date |-> bet_date,
     bet_type |-> f.bet_type,
     sport |-> f.sport,
     game_description |-> f.game_description,
     bet_description |-> f.bet_description,
     odds |-> f.odds,
     stake |-> stake,
     potential_payout |-> potential_payout,
     status |-> status,
     actual_payout |-> actual_payout,
     week_number |-> get_week_number(bet_date),
     year |-> bet_date[1],
     user_id |-> user]

\* add_bet's POST branch: the rows of the table after the request.
AddBetRows(rows, data, user) ==
    LET bet_date == strptime_iso(data.date)
        stake == PyFloat(data.stake)
        potential_payout == PyFloat(data.potential_payout)
        actual_payout == PyFloat(DictGet(data, "actual_payout", <<"0">>))
    IN  IF bet_date = NoNum \/ stake = NoNum \/ potential_payout = NoNum
           \/ actual_payout = NoNum
        THEN rows
        ELSE Append(rows, NewBet(bet_date, data, Val(stake), Val(potential_payout),
                                 DictGet(data, "status", S_pending),
                                 Val(actual_payout), user))

\* The assignments update_bet makes to the row it found.
UpdatedBet(bet, data) ==
    IF data.status = S_won
    THEN [bet EXCEPT !.status = data.status,
                     !.actual_payout =
                         IF "actual_payout" \in DOMAIN data
                         THEN Val(PyFloat(data.actual_payout))
                         ELSE bet.potential_payout]
    ELSE IF data.status = S_lost
    THEN [bet EXCEPT !.status = data.status, !.actual_payout = 0]
    ELSE IF data.status = S_pushed
    THEN [bet EXCEPT !.status = data.status, !.actual_payout = bet.stake]
    ELSE [bet EXCEPT !.status = data.status]

\* A variant that finds the row by its id alone.
UpdateBetRows_any_owner(rows, bet_id, data, user) ==
    IF bet_id \notin 1..Len(rows)
    THEN rows
    ELSE IF /\ data.status = S_won
            /\ "actual_payout" \in DOMAIN data
            /\ PyFloat(data.actual_payout) = NoNum
    THEN rows
    ELSE [rows EXCEPT ![bet_id] = UpdatedBet(@, data)]

\* update_bet: the rows of the table after the request.  No row with this
\* id and this owner is a 404; a payout float() rejects is a 500.
UpdateBetRows(rows, bet_id, data, user) ==
    IF bet_id \notin 1..Len(rows) \/ rows[bet_id].user_id # user
    THEN rows
    ELSE IF /\ data.status = S_won
            /\ "actual_payout" \in DOMAIN data
            /\ PyFloat(data.actual_payout) = NoNum
    THEN rows
    ELSE [rows EXCEPT ![bet_id] = UpdatedBet(@, data)]

RECURSIVE AppendImported(_, _, _)
\* The loop of handle_csv_import over result['bets'].
AppendImported(rows, bets, user) ==
    IF bets = <<>> THEN rows
    ELSE LET bet_data == Head(bets)
         IN  AppendImported(
                 Append(rows, NewBet(strptime_iso(bet_data.date), bet_data,
                                     bet_data.stake, bet_data.potential_payout,
                                     bet_data.status, bet_data.actual_payout, user)),
                 Tail(bets), user)

\* handle_csv_import for an uploaded .csv file: the rows of the table after
\* the request.  A date strptime rejects raises before the commit.
CsvImportRows(rows, result, user) ==
    IF ~result.success THEN rows
    ELSE IF \E i \in 1..Len(result.bets) : strptime_iso(result.bets[i].date) = NoNum
    THEN rows
    ELSE AppendImported(rows, result.bets, user)

\* x or default, for a str x
OrElse(x, default) == IF x # <<>> THEN x ELSE default

\* handle_email_import: the rows of the table after the request, bet_data
\* being what parser.parse_email(email_content, email_subject) returned.
EmailImportRows(rows, email_content, bet_data, user) ==
    IF email_content = <<>> THEN rows
    ELSE
        IF bet_data = NoneRec THEN rows
        ELSE IF strptime_iso(bet_data.date) = NoNum THEN rows
        ELSE Append(rows,
                NewBet(strptime_iso(bet_data.date),
                       [bet_type |-> OrElse(bet_data.bet_type, W_unknown),
                        sport |-> OrElse(bet_data.sport, W_Other),
                        game_description |->
                            OrElse(bet_data.game_description, W_UnknownGame),
                        bet_description |-> bet_data.game_description,
                        odds |-> OrElse(bet_data.odds, W_plus100)],
                       IF bet_data.stake # <<>> THEN Val(PyFloat(bet_data.stake)) ELSE 0,
                       IF bet_data.potential_payout # <<>>
                       THEN Val(PyFloat(bet_data.potential_payout)) ELSE 0,
                       S_pending, 0, user))

\* d[key] = value, for a dict d
With(data, key, value) ==
    [k \in DOMAIN data \cup {key} |-> IF k = key THEN value ELSE data[k]]

BetTypes ==
    {<<"s", "p", "r", "e", "a", "d">>,
     <<"m", "o", "n", "e", "y", "l", "i", "n", "e">>,
     <<"o", "v", "e", "r", "/", "u", "n", "d", "e", "r">>,
     <<"p", "a", "r", "l", "a", "y">>,
     <<"p", "r", "o", "p">>}

\* Bet.query.filter_by(user_id=user).all()
BetsOf(rows, user) == SelectSeq(rows, LAMBDA bet : bet.user_id = user)

\* Bet.query.filter_by(week_number=week, year=year, user_id=user).all()
WeekBetsOf(rows, year, week, user) ==
    SelectSeq(rows, LAMBDA bet :
        bet.week_number = week /\ bet.year = year /\ bet.user_id = user)

\* dashboard: what the template is rendered with.  recent_bets is the ids of
\* the rows listed: the table never holds more than ten rows of a user, and
\* the order of rows of one date is the database's.
dashboard(rows, user, now) ==
    LET current_week == get_week_number(now)
        current_year == now[1]
        all_bets == BetsOf(rows, user)
        lowered ==
            [i \in 1..Len(all_bets) |->
                [bet |-> all_bets[i], bet_type |-> PyLower(all_bets[i].bet_type)]]
        type_bets(bet_type) ==
            LET of_type == SelectSeq(lowered, LAMBDA x : x.bet_type = bet_type)
            IN  [i \in 1..Len(of_type) |-> of_type[i].bet]
    IN  [weekly_stats |->
             calculate_stats(WeekBetsOf(rows, current_year, current_week, user)),
         overall_stats |-> calculate_stats(all_bets),
         bet_type_stats |->
             [bet_type \in {t \in BetTypes : type_bets(t) # <<>>} |->
                 calculate_stats(type_bets(bet_type))],
         recent_bets |-> {i \in 1..Len(rows) : rows[i].user_id = user},
         current_week |-> current_week]

\* A (year, week_number) pair comes before another in the order
\* Bet.year.desc(), Bet.week_number.desc().
WeekBefore(a, b) == a[1] > b[1] \/ (a[1] = b[1] /\ a[2] > b[2])

RECURSIVE WeeksDescending(_)
WeeksDescending(weeks) ==
    IF weeks = {} THEN <<>>
    ELSE LET first == CHOOSE a \in weeks : \A b \in weeks \ {a} : WeekBefore(a, b)
         IN  <<first>> \o WeeksDescending(weeks \ {first})

\* weekly_history: the list the template is rendered with.
weekly_history(rows, user) ==
    LET mine == BetsOf(rows, user)
        weeks_data ==
            WeeksDescending({<<mine[i].year, mine[i].week_number>> : i \in 1..Len(mine)})
    IN  [n \in 1..Len(weeks_data) |->
            LET week_data == weeks_data[n]
                stats == calculate_stats(
                             WeekBetsOf(rows, week_data[1], week_data[2], user))
            IN  With(With(stats, "year", week_data[1]),
                     "week_number", week_data[2])]

----------------------------------------------------------------------------
(* Sample cells, lines and headers of the files the importer is tried on.  *)

T_spread == <<"s", "p", "r", "e", "a", "d">>
T_NFL == <<"N", "F", "L">>
T_game == <<" ", "A", " ", "v", "s", " ", "B", " ">>
T_bet == <<"A", " ", "-", "3">>
T_NaN == <<"N", "a", "N">>
T_odds == <<"-", "1", "1", "0">>
T_stake == <<"2", "5", ".", "0", "0">>
T_payout == <<"4", "7", ".", "7", "3">>
T_zero == <<"0">>
T_zero2 == <<"0", ".", "0", "0">>
T_stake_cur == <<"$", "1", ",", "0", "0", "0", ".", "5", "0">>
T_stake_neg == <<"-", "5">>
T_abc == <<"a", "b", "c">>
T_lots == <<"l", "o", "t", "s">>
T_12 == <<"1", "2">>
D_iso == <<"2", "0", "2", "4", "-", "0", "1", "-", "1", "5">>
D_us == <<"0", "1", "/", "1", "6", "/", "2", "0", "2", "4">>
D_bad == <<"1", "3", "/", "4", "5", "/", "2", "0", "2", "4">>
D_year5 == <<"0", "0", "0", "5", "-", "0", "1", "-", "1", "5">>

Line(date, odds, stake, payout, rest) ==
    <<date, T_spread, T_NFL, T_game, T_bet, odds, stake, payout>> \o rest

SampleLines ==
    {Line(D_iso, T_odds, T_stake, T_payout, <<S_won, T_payout>>),
     Line(D_us, T_odds, T_stake, T_payout, <<S_pending, T_zero2>>),
     Line(D_iso, T_odds, T_stake, T_payout, <<>>),
     Line(D_iso, T_odds, T_stake, T_payout, <<<<>>, <<>>>>),
     Line(D_iso, T_odds, T_stake, T_payout, <<S_void, T_lots>>),
     Line(D_iso, T_odds, T_stake, T_payout, <<S_lost, T_12>>),
     Line(D_bad, T_odds, T_stake, T_payout, <<S_won, T_payout>>),
     Line(D_year5, T_odds, T_stake, T_payout, <<>>),
     Line(D_iso, T_odds, T_stake_cur, T_payout, <<>>),
     Line(D_iso, T_odds, T_stake_neg, T_payout, <<>>),
     Line(D_bad, T_odds, T_abc, T_payout, <<>>),
     Line(D_iso, T_odds, T_stake, T_zero, <<>>),
     Line(D_iso, <<>>, T_stake, T_payout, <<T_NaN, T_NaN>>),
     <<D_iso, T_spread, T_NFL>>,
     <<>>,
     Undecodable,
     UndecodableLater}

Without(seq, names) == SelectSeq(seq, LAMBDA c : c \notin names)

SampleHeaders ==
    {required_columns \o optional_columns,
     required_columns,
     Without(required_columns, {"odds", "stake"}) \o optional_columns,
     <<"date">>}

\* The values datetime.now() takes.
Clock == {<<2026, 11, 4>>, <<2024, 12, 30>>}

----------------------------------------------------------------------------
VARIABLES
    records,      \* the list handed to calculate_stats
    stats,        \* what calculate_stats returned for it, or NoStats
    csvfile,      \* the file handed to import_from_csv
    result,       \* what import_from_csv returned for it, or NoResult
    env,          \* the clock and the platform the call ran on, or NoEnv
    disk,         \* the text of the template file on disk, or NoFile
    mail,         \* the email handed to parse_email: its content and subject
    parsed,       \* what parse_email returned for it, or NoParse
    raw,          \* the cell value handed to the cleaning functions
    cleaned,      \* what the cleaning functions returned for it, or NoClean
    db,           \* the Bet table
    requests,     \* how many requests the application has served
    request       \* the last request served: its handler, user and arguments

vars == <<records, stats, csvfile, result, env, disk, mail, parsed, raw, cleaned,
          db, requests, request>>

statsVars == <<records, stats>>
csvVars == <<csvfile, result, env, disk>>
emailVars == <<mail, parsed>>
cleanVars == <<raw, cleaned>>
appVars == <<db, requests, request>>

NoStats == [computed |-> FALSE]
NoResult == [returned |-> FALSE]
NoEnv == [ran |-> FALSE]
NoFile == [exists |-> FALSE]
NoParse == [returned |-> FALSE]
NoClean == [returned |-> FALSE]

Rec(s, stake, payout) == [status |-> s, stake |-> stake, actual_payout |-> payout]

\* The bet records the aggregator is tried on.
StatRecords ==
    {Rec(S_won, 10000, 20000), Rec(S_lost, 10000, 0), Rec(S_pushed, 10000, 10000),
     Rec(S_pending, 10000, 0), Rec(S_won, 25000, 47730), Rec(S_lost, 10004, 0),
     Rec(S_pending, 0, 0), Rec(S_lost, 0 - 5000, 0), Rec(S_void, 10000, 5000)}

StatsIdle == records = <<>> /\ stats = NoStats
CsvIdle == csvfile = Unreadable /\ result = NoResult /\ env = NoEnv /\ disk = NoFile
EmailIdle == mail = [content |-> <<>>, subject |-> <<>>] /\ parsed = NoParse
CleanIdle == raw = <<>> /\ cleaned = NoClean
NoRequest == [handler |-> "none"]
AppIdle == db = <<>> /\ requests = 0 /\ request = NoRequest

----------------------------------------------------------------------------
(* The aggregator on its own: a list is built, then summarised.            *)

InitStats == StatsIdle /\ CsvIdle /\ EmailIdle /\ CleanIdle /\ AppIdle

AppendRecord ==
    /\ Len(records) < MaxRecords
    /\ \E r \in StatRecords : records' = Append(records, r)
    /\ stats' = NoStats
    /\ UNCHANGED <<csvVars, appVars, emailVars, cleanVars>>

CallCalculateStats ==
    /\ stats = NoStats
    /\ stats' = calculate_stats(records)
    /\ UNCHANGED <<records, csvVars, appVars, emailVars, cleanVars>>

NextStats == AppendRecord \/ CallCalculateStats

SpecStats == InitStats /\ [][NextStats]_vars

----------------------------------------------------------------------------
(* The importer on its own: a file is written, then imported.              *)

InitCsv ==
    /\ StatsIdle
    /\ AppIdle
    /\ EmailIdle
    /\ CleanIdle
    /\ csvfile \in {Unreadable} \cup
                   [sniffs : BOOLEAN, header : SampleHeaders, rows : {<<>>}]
    /\ result = NoResult
    /\ env = NoEnv
    /\ disk = NoFile

WriteLine ==
    /\ csvfile # Unreadable
    /\ result = NoResult
    /\ Len(csvfile.rows) < MaxRows
    /\ \E line \in SampleLines :
          csvfile' = [csvfile EXCEPT !.rows = Append(@, line)]
    /\ UNCHANGED <<result, env, disk, statsVars, appVars, emailVars, cleanVars>>

CallImportFromCsv ==
    /\ result = NoResult
    /\ \E now \in Clock, pads_year \in BOOLEAN :
          /\ env' = [now |-> now, pads_year |-> pads_year]
          /\ result' = import_from_csv(csvfile, now, pads_year)
    /\ UNCHANGED <<csvfile, disk, statsVars, appVars, emailVars, cleanVars>>

NextCsv == WriteLine \/ CallImportFromCsv

SpecCsv == InitCsv /\ [][NextCsv]_vars

----------------------------------------------------------------------------
(* The template on its own: it is generated, a user appends lines to it,   *)
(* and it is imported.                                                     *)

U_full ==
    <<"2", "0", "2", "4", "-", "0", "1", "-", "1", "7", ",", "t", "o",
    "t", "a", "l", ",", "N", "H", "L", ",", "A", " ", "v", "s", " ",
    "B", ",", "O", "v", "e", "r", " ", "5", ".", "5", ",", "-", "1",
    "0", "5", ",", "1", "0", ",", "1", "9", ".", "5", "2", ",", "l",
    "o", "s", "t", ",", "0", "\r", "\n">>
U_short ==
    <<"2", "0", "2", "4", "-", "0", "1", "-", "1", "7", ",", "t", "o",
    "t", "a", "l", ",", "N", "H", "L", "\r", "\n">>
U_bad_stake ==
    <<"2", "0", "2", "4", "-", "0", "1", "-", "1", "8", ",", "t", "o",
    "t", "a", "l", ",", "N", "H", "L", ",", "A", " ", "v", "s", " ",
    "B", ",", "O", "v", "e", "r", " ", "5", ".", "5", ",", "-", "1",
    "0", "5", ",", "a", "b", "c", ",", "1", "9", ".", "5", "2", ",",
    "l", "o", "s", "t", ",", "0", "\r", "\n">>
U_blank ==
    <<"\r", "\n">>
U_unix ==
    <<"0", "1", "/", "1", "9", "/", "2", "0", "2", "4", ",", "s", "p",
    "r", "e", "a", "d", ",", "N", "F", "L", ",", "C", " ", "v", "s",
    " ", "D", ",", "C", " ", "-", "3", ",", "+", "1", "2", "0", ",",
    "$", "5", ",", "1", "1", ",", "w", "o", "n", ",", "1", "1", "\n">>

\* The lines a user appends to the template.
UserLines == {U_full, U_short, U_bad_stake, U_blank, U_unix}

\* How many lines were appended to the generated template.
Appended == Len(SplitLines(disk, 1, <<>>)) - (1 + Len(template_rows))

InitTemplate == StatsIdle /\ CsvIdle /\ EmailIdle /\ CleanIdle /\ AppIdle

GenerateTemplate ==
    /\ disk = NoFile
    /\ disk' = generate_template_csv
    /\ UNCHANGED <<csvfile, result, env, statsVars, appVars, emailVars, cleanVars>>

AppendLine ==
    /\ disk # NoFile
    /\ result = NoResult
    /\ Appended < MaxAppended
    /\ \E line \in UserLines : disk' = disk \o line
    /\ UNCHANGED <<csvfile, result, env, statsVars, appVars, emailVars, cleanVars>>

ImportTemplate ==
    /\ disk # NoFile
    /\ result = NoResult
    /\ csvfile' = OpenCsv(disk)
    /\ \E now \in Clock, pads_year \in BOOLEAN :
          /\ env' = [now |-> now, pads_year |-> pads_year]
          /\ result' = import_from_csv(OpenCsv(disk), now, pads_year)
    /\ UNCHANGED <<disk, statsVars, appVars, emailVars, cleanVars>>

NextTemplate == GenerateTemplate \/ AppendLine \/ ImportTemplate

SpecTemplate == InitTemplate /\ [][NextTemplate]_vars

----------------------------------------------------------------------------
(* Properties of the aggregator, stated on the list that was summarised    *)
(* and the summary that came back.                                         *)

Summarised == stats # NoStats
NumberOf(s) == Cardinality({i \in 1..Len(records) : records[i].status = s})
RECURSIVE StakeUpTo(_)
StakeUpTo(n) == IF n = 0 THEN 0 ELSE StakeUpTo(n - 1) + records[n].stake
RECURSIVE PayoutUpTo(_)
PayoutUpTo(n) == IF n = 0 THEN 0 ELSE PayoutUpTo(n - 1) + records[n].actual_payout
TotalStake == StakeUpTo(Len(records))
TotalPayout == PayoutUpTo(Len(records))
Decided == NumberOf(S_won) + NumberOf(S_lost)
Abs(x) == IF x < 0 THEN 0 - x ELSE x

\* x (in thousandths) is a whole number of hundredths and lies within half
\* a hundredth of the quotient n/d (in hundredths, d > 0).
NearestHundredth(x, n, d) ==
    /\ x % 10 = 0
    /\ LET k == x \div 10 - n \div d
           r == n % d
       IN  (k = 0 /\ 2 * r <= d) \/ (k = 1 /\ 2 * r >= d)

\* x (in thousandths) is the quotient n/d (in hundredths) exactly; a
\* quotient by 0 constrains nothing.
ExactQuotient(x, n, d) ==
    \/ d = 0
    \/ LET nn == IF d < 0 THEN 0 - n ELSE n
           dd == Abs(d)
           r == nn % dd
       IN  (10 * r) % dd = 0 /\ x = 10 * (nn \div dd) + (10 * r) \div dd

CountsAgree ==
    /\ stats.total_bets = Len(records)
    /\ stats.wins = NumberOf(S_won)
    /\ stats.losses = NumberOf(S_lost)
    /\ stats.pushes = NumberOf(S_pushed)
    /\ stats.pending = NumberOf(S_pending)

TheExample ==
    <<Rec(S_won, 10000, 20000), Rec(S_lost, 10000, 0), Rec(S_pushed, 10000, 10000)>>

ExampleSummary ==
    [total_bets |-> 3, wins |-> 1, losses |-> 1, pushes |-> 1, pending |-> 0,
     win_rate |-> 50000, total_staked |-> 30000, total_payout |-> 30000,
     profit_loss |-> 0, roi |-> 0]

\* C3 as the claim states it: for every non-empty list the counts are the
\* numbers of records per status, the totals are the exact sums,
\* profit_loss = total_payout - total_staked, win_rate is exactly
\* 100*wins/(wins+losses) and roi exactly 100*profit_loss/total_staked
\* (written without the division), and the example gives its summary.
C3_AsStated ==
    (Summarised /\ records # <<>>) =>
        /\ stats # ZeroDivisionError
        /\ CountsAgree
        /\ stats.total_staked = TotalStake
        /\ stats.total_payout = TotalPayout
        /\ stats.profit_loss = TotalPayout - TotalStake
        /\ ExactQuotient(stats.win_rate, 100 * 100 * NumberOf(S_won), Decided)
        /\ ExactQuotient(stats.roi, 100 * 100 * (TotalPayout - TotalStake),
                         TotalStake)
        /\ (records = TheExample => stats = ExampleSummary)

\* C3: for every non-empty list the counts are the numbers of records per
\* status; total_staked, total_payout and profit_loss are the sums and
\* their difference rounded to two decimals; win_rate is
\* 100*wins/(wins+losses) rounded to two decimals when there is a won or
\* lost record and 0 otherwise; roi is 100*profit_loss/total_staked rounded
\* to two decimals when the total stake is positive and 0 otherwise; the
\* three records won(10, 20), lost(10, 0), pushed(10, 10) give total_bets 3,
\* wins 1, losses 1, pushes 1, win_rate 50, total_staked 30, total_payout
\* 30, profit_loss 0, roi 0.
C3_Formulas ==
    (Summarised /\ records # <<>>) =>
        /\ stats # ZeroDivisionError
        /\ CountsAgree
        /\ NearestHundredth(stats.total_staked, TotalStake, 10)
        /\ NearestHundredth(stats.total_payout, TotalPayout, 10)
        /\ NearestHundredth(stats.profit_loss, TotalPayout - TotalStake, 10)
        /\ IF Decided > 0
           THEN NearestHundredth(stats.win_rate,
                                 100 * 100 * NumberOf(S_won), Decided)
           ELSE stats.win_rate = 0
        /\ IF TotalStake > 0
           THEN NearestHundredth(stats.roi,
                                 100 * 100 * (TotalPayout - TotalStake), TotalStake)
           ELSE stats.roi = 0
        /\ (records = TheExample => stats = ExampleSummary)

\* A list whose win rate and return are not whole hundredths has been
\* summarised: two won records and a lost one with stakes 25, 25, 10.004.
C3_Witness ==
    /\ Summarised
    /\ Len(records) = 3
    /\ NumberOf(S_won) = 2 /\ NumberOf(S_lost) = 1
    /\ TotalStake = 60004
    /\ stats # ZeroDivisionError
    /\ stats.win_rate = 66670

\* C4: calculate_stats never divides by zero: it returns a summary for
\* every list; for the empty list all ten fields are 0; with no won and no
\* lost record win_rate is 0; with a total stake of 0 roi is 0.
C4_NoDivisionByZero ==
    Summarised =>
        /\ stats # ZeroDivisionError
        /\ DOMAIN stats = {"total_bets", "wins", "losses", "pushes", "pending",
                           "win_rate", "total_staked", "total_payout",
                           "profit_loss", "roi"}
        /\ (records = <<>> => \A k \in DOMAIN stats : stats[k] = 0)
        /\ (Decided = 0 => stats.win_rate = 0)
        /\ (TotalStake = 0 => stats.roi = 0)

\* A non-empty list with no won or lost record and a total stake of 0 has
\* been summarised.
C4_Witness ==
    /\ Summarised
    /\ records # <<>>
    /\ Decided = 0
    /\ TotalStake = 0
    /\ stats # ZeroDivisionError
    /\ stats.roi = 0

----------------------------------------------------------------------------
(* Properties of the importer, stated on the file that was imported and    *)
(* the result that came back.                                              *)

Returned == result # NoResult
Succeeded == Returned /\ "success" \in DOMAIN result /\ result.success = TRUE

\* The data rows of the imported file: its lines that are not blank.
DataRows == SelectSeq(csvfile.rows, LAMBDA line : line # <<>>)

\* The row numbers the skip entries name, in the order of the entries.
SkippedRowNumbers == [j \in 1..Len(result.skipped) |-> result.skipped[j][2]]

IsSkipped(k) == \E j \in 1..Len(result.skipped) : result.skipped[j][2] = k

\* The number of the data row behind the j-th record of bets, when every
\* row that is not named in skipped contributed one record, in file order.
RECURSIVE RowOfBet(_, _)
RowOfBet(j, k) ==
    IF k > Len(DataRows) THEN 0
    ELSE IF IsSkipped(k) THEN RowOfBet(j, k + 1)
    ELSE IF j = 1 THEN k
    ELSE RowOfBet(j - 1, k + 1)

\* Where the header has the column, or 0.
ColumnAt(col) ==
    IF \E i \in 1..Len(csvfile.header) : csvfile.header[i] = col
    THEN CHOOSE i \in 1..Len(csvfile.header) : csvfile.header[i] = col
    ELSE 0

\* The row gives the column a value: the header has the column, the line
\* reaches it and the cell is not empty.
Supplies(line, col) ==
    /\ ColumnAt(col) # 0
    /\ ColumnAt(col) <= Len(line)
    /\ line[ColumnAt(col)] # <<>>

Increasing(seq) == \A a, b \in 1..Len(seq) : a < b => seq[a] < seq[b]

\* C5: when import_from_csv succeeds on a file with N data rows, each row k
\* contributes either one record to bets or one entry beginning "Row k: "
\* to skipped, so len(bets) + len(skipped) = N; both lists keep file order;
\* a row that fails does not stop the rows after it from being processed.
C5_EveryRowAccounted ==
    Succeeded =>
        /\ Len(result.bets) + Len(result.skipped) = Len(DataRows)
        /\ \A j \in 1..Len(result.skipped) :
              /\ result.skipped[j][1] = "Row "
              /\ result.skipped[j][2] \in 1..Len(DataRows)
              /\ result.skipped[j][3] = ": "
        /\ Increasing(SkippedRowNumbers)
        /\ \A k \in 1..Len(DataRows) :
              IsSkipped(k) <=>
                  _process_row(DictRow(csvfile.header, DataRows[k]),
                               env.now, env.pads_year) = NoneRec
        /\ \A j \in 1..Len(result.bets) :
              /\ RowOfBet(j, 1) # 0
              /\ result.bets[j] =
                    _process_row(DictRow(csvfile.header, DataRows[RowOfBet(j, 1)]),
                                 env.now, env.pads_year)

\* A file whose first data row is rejected and whose second is emitted has
\* been imported.
C5_Witness ==
    /\ Succeeded
    /\ Len(DataRows) = 2
    /\ Len(result.skipped) = 1
    /\ result.skipped[1][2] = 1
    /\ Len(result.bets) = 1

\* C6: if the header lacks a required column, import_from_csv returns
\* success = false, an error that contains the name of every missing
\* required column, and an empty bets list.
C6_MissingColumnsNamed ==
    (Returned /\ csvfile # Unreadable
        /\ \E c \in 1..Len(required_columns) : ColumnAt(required_columns[c]) = 0) =>
        /\ result.success = FALSE
        /\ result.bets = <<>>
        /\ \A c \in 1..Len(required_columns) :
              ColumnAt(required_columns[c]) = 0 =>
                  \E p \in 1..Len(result.error) : result.error[p] = required_columns[c]

\* C7: every result of import_from_csv, on success and on every failure,
\* has the fields success, bets and skipped, bets and skipped being lists;
\* on every failure bets is empty.
C7_ResultShape ==
    Returned =>
        /\ {"success", "bets", "skipped"} \subseteq DOMAIN result
        /\ result.success \in BOOLEAN
        /\ DOMAIN result.bets = 1..Len(result.bets)
        /\ DOMAIN result.skipped = 1..Len(result.skipped)
        /\ (~result.success => result.bets = <<>>)

\* C8: every record import_from_csv places in bets has stake > 0,
\* potential_payout >= 0 and a non-empty odds; a row whose cleaned stake or
\* potential_payout is missing, or whose odds is empty, is not emitted.
C8_EmittedRecordsValid ==
    Succeeded =>
        /\ \A j \in 1..Len(result.bets) :
              /\ result.bets[j].stake > 0
              /\ result.bets[j].potential_payout >= 0
              /\ result.bets[j].odds # <<>>
        /\ \A k \in 1..Len(DataRows) :
              LET row == DictRow(csvfile.header, DataRows[k]) IN
              (\/ _clean_numeric(row["stake"]) = NoNum
               \/ _clean_numeric(row["potential_payout"]) = NoNum
               \/ _clean_text(row["odds"]) = <<>>) => IsSkipped(k)

\* s has the form YYYY-MM-DD: four digits, two digits, two digits.
IsIsoForm(s) ==
    /\ Len(s) = 10
    /\ s[5] = "-" /\ s[8] = "-"
    /\ \A p \in {1, 2, 3, 4, 6, 7, 9, 10} : IsDigit(s[p])

\* The date the claim gives a row, on a build that pads the year.
ClaimedDate(cell) ==
    IF strptime_iso(cell) # NoNum THEN strftime_iso(strptime_iso(cell), TRUE)
    ELSE IF strptime_us(cell) # NoNum THEN strftime_iso(strptime_us(cell), TRUE)
    ELSE strftime_iso(env.now, TRUE)

\* Two lines that differ at most in the date cell.
SameButDate(a, b) == Len(a) = Len(b) /\ \A p \in 2..Len(a) : a[p] = b[p]

\* C9: the date of a row is read as YYYY-MM-DD, else as MM/DD/YYYY, else it
\* is the current date; no row is skipped because of its date; the date of
\* every emitted record has the form YYYY-MM-DD.
C9_DateFallback ==
    Succeeded =>
        /\ \A j \in 1..Len(result.bets) :
              /\ IsIsoForm(result.bets[j].date)
              /\ RowOfBet(j, 1) # 0
              /\ result.bets[j].date = ClaimedDate(DataRows[RowOfBet(j, 1)][1])
        /\ \A k \in 1..Len(DataRows) :
              IsSkipped(k) =>
                  \A line \in SampleLines :
                      (Len(line) >= 1 /\ SameButDate(line, DataRows[k])) =>
                          _process_row(DictRow(csvfile.header, line),
                                       env.now, env.pads_year) = NoneRec

\* C10: every emitted record has a status in {pending, won, lost, pushed};
\* when the row supplies no status (column absent, cell missing or empty)
\* the status is pending, and when it supplies no actual_payout the
\* actual_payout is 0.
C10_StatusDefaults ==
    Succeeded =>
        \A j \in 1..Len(result.bets) :
            /\ result.bets[j].status \in Statuses
            /\ RowOfBet(j, 1) # 0
            /\ ~Supplies(DataRows[RowOfBet(j, 1)], "status") =>
                  result.bets[j].status = S_pending
            /\ ~Supplies(DataRows[RowOfBet(j, 1)], "actual_payout") =>
                  result.bets[j].actual_payout = 0

----------------------------------------------------------------------------
(* Properties of the template round trip.                                  *)

\* C11: the file written by generate_template_csv, passed unchanged to
\* import_from_csv, yields success = true, exactly 2 bets in the order of
\* the two example rows with the date, stake, payout and status written,
\* and 0 skipped entries.
C11_TemplateRoundTrip ==
    (disk # NoFile /\ Appended = 0 /\ Returned) =>
        /\ Succeeded
        /\ "skipped" \in DOMAIN result /\ result.skipped = <<>>
        /\ Len(result.bets) = 2
        /\ result.bets[1].date = <<"2", "0", "2", "4", "-", "0", "1", "-", "1", "5">>
        /\ result.bets[1].stake = 25000
        /\ result.bets[1].potential_payout = 47730
        /\ result.bets[1].status = S_won
        /\ result.bets[1].actual_payout = 47730
        /\ result.bets[2].date = <<"2", "0", "2", "4", "-", "0", "1", "-", "1", "6">>
        /\ result.bets[2].stake = 50000
        /\ result.bets[2].potential_payout = 125000
        /\ result.bets[2].status = S_pending
        /\ result.bets[2].actual_payout = 0

\* The template has been generated and imported as written.
C11_Witness ==
    /\ disk # NoFile
    /\ Appended = 0
    /\ Returned
    /\ Len(result.bets) = 2

----------------------------------------------------------------------------
(* The application: logged-in users send requests.                         *)

D_dec30 == <<"2", "0", "2", "4", "-", "1", "2", "-", "3", "0">>
D_jan2 == <<"2", "0", "2", "4", "-", "0", "1", "-", "0", "2">>
T_10 == <<"1", "0">>
T_20 == <<"2", "0">>
T_5 == <<"5">>
T_30 == <<"3", "0">>

Form(date, stake) ==
    [date |-> date, bet_type |-> T_spread, sport |-> T_NFL,
     game_description |-> T_game, bet_description |-> T_bet, odds |-> T_odds,
     stake |-> stake, potential_payout |-> T_20]

\* The JSON bodies posted to /add_bet.
AddBetRequests ==
    {Form(D_iso, T_10),
     Form(D_jan2, T_10),
     With(With(Form(D_dec30, T_10), "status", S_lost), "actual_payout", T_5),
     Form(D_bad, T_10),
     Form(D_iso, T_abc)}

\* The JSON bodies posted to /update_bet/<id>.
UpdateRequests ==
    [status : Statuses \cup {S_void}]
    \cup [status : {S_won}, actual_payout : {T_30, T_abc}]

\* The files uploaded to /import_data.
UploadedFiles ==
    {[sniffs |-> FALSE, header |-> <<"date">>, rows |-> <<>>],
     [sniffs |-> TRUE, header |-> required_columns \o optional_columns,
      rows |-> <<Line(D_us, T_odds, T_stake, T_payout, <<S_lost, T_12>>),
                 Line(D_iso, T_odds, T_abc, T_payout, <<>>)>>],
     [sniffs |-> TRUE, header |-> required_columns,
      rows |-> <<Line(D_year5, T_odds, T_stake, T_payout, <<>>)>>]}

E_sample == 
    <<"Y", "o", "u", "r", " ", "F", "a", "n", "D", "u", "e", "l", " ",
    "b", "e", "t", " ", "c", "o", "n", "f", "i", "r", "m", "a",
    "t", "i", "o", "n", "\n", "G", "a", "m", "e", ":", " ", "C",
    "h", "i", "e", "f", "s", " ", "v", "s", " ", "B", "i", "l",
    "l", "s", "\n", "B", "e", "t", ":", " ", "C", "h", "i", "e",
    "f", "s", " ", "-", "3", ".", "5", " ", "(", "S", "p", "r",
    "e", "a", "d", ")", "\n", "O", "d", "d", "s", ":", " ", "-",
    "1", "1", "0", "\n", "S", "t", "a", "k", "e", ":", " ", "$",
    "2", "5", ".", "0", "0", "\n", "P", "o", "t", "e", "n", "t",
    "i", "a", "l", " ", "W", "i", "n", ":", " ", "$", "2", "2",
    ".", "7", "3", "\n", "T", "o", "t", "a", "l", " ", "P", "a",
    "y", "o", "u", "t", ":", " ", "$", "4", "7", ".", "7", "3",
    "\n">>
E_subject == 
    <<"F", "a", "n", "D", "u", "e", "l", " ", "B", "e", "t", " ", "C",
    "o", "n", "f", "i", "r", "m", "a", "t", "i", "o", "n">>
E_unknown == 
    <<"S", "t", "a", "k", "e", ":", " ", "$", "2", "5", ".", "0", "0",
    " ", "O", "d", "d", "s", ":", " ", "-", "1", "1", "0">>
E_no_odds == 
    <<"D", "r", "a", "f", "t", "K", "i", "n", "g", "s", " ", "S", "t",
    "a", "k", "e", ":", " ", "$", "1", "0">>

\* The email texts pasted into /import_data: [content, subject].
PastedEmails ==
    {[content |-> E_sample, subject |-> E_subject],
     [content |-> E_unknown, subject |-> <<>>],
     [content |-> E_no_odds, subject |-> <<>>],
     [content |-> <<>>, subject |-> E_subject]}

Init == StatsIdle /\ CsvIdle /\ EmailIdle /\ CleanIdle /\ AppIdle

add_bet ==
    /\ requests < MaxRequests
    /\ \E current_user \in Users, data \in AddBetRequests :
          /\ db' = AddBetRows(db, data, current_user)
          /\ request' = [handler |-> "add_bet", current_user |-> current_user]
    /\ requests' = requests + 1
    /\ UNCHANGED <<statsVars, csvVars, emailVars, cleanVars>>

update_bet ==
    /\ requests < MaxRequests
    /\ \E current_user \in Users, bet_id \in 1..(Len(db) + 1), data \in UpdateRequests :
          /\ db' = UpdateBetRows(db, bet_id, data, current_user)
          /\ request' = [handler |-> "update_bet", current_user |-> current_user,
                         bet_id |-> bet_id, data |-> data]
    /\ requests' = requests + 1
    /\ UNCHANGED <<statsVars, csvVars, emailVars, cleanVars>>

\* What importer.import_from_csv returns for each uploaded file, on each day
\* and build of the C library.
CsvImports ==
    {import_from_csv(file, now, pads_year) :
        file \in UploadedFiles, now \in Clock, pads_year \in BOOLEAN}

\* What parser.parse_email returns for each pasted email.
EmailImports ==
    {[email_content |-> email.content,
      bet_data |-> parse_email(email.content, email.subject, now, pads_year)] :
        email \in PastedEmails, now \in Clock, pads_year \in BOOLEAN}

handle_csv_import ==
    /\ requests < MaxRequests
    /\ \E current_user \in Users, import \in CsvImports :
          /\ db' = CsvImportRows(db, import, current_user)
          /\ request' = [handler |-> "handle_csv_import",
                         current_user |-> current_user]
    /\ requests' = requests + 1
    /\ UNCHANGED <<statsVars, csvVars, emailVars, cleanVars>>

handle_email_import ==
    /\ requests < MaxRequests
    /\ \E current_user \in Users, import \in EmailImports :
          /\ db' = EmailImportRows(db, import.email_content, import.bet_data,
                                   current_user)
          /\ request' = [handler |-> "handle_email_import",
                         current_user |-> current_user]
    /\ requests' = requests + 1
    /\ UNCHANGED <<statsVars, csvVars, emailVars, cleanVars>>

Next == add_bet \/ update_bet \/ handle_csv_import \/ handle_email_import

Spec == Init /\ [][Next]_vars

----------------------------------------------------------------------------
(* Properties of the persisted bets.                                       *)

\* C1: in every state reached by add_bet, CSV import, email import and
\* update_bet requests, every persisted bet's actual_payout follows from
\* its status: 0 when lost, the stake when pushed, 0 when pending (a won
\* bet holds the value its caller chose, or potential_payout).
C1_PayoutFollowsStatus ==
    \A i \in 1..Len(db) :
        /\ db[i].status = S_lost => db[i].actual_payout = 0
        /\ db[i].status = S_pushed => db[i].actual_payout = db[i].stake
        /\ db[i].status = S_pending => db[i].actual_payout = 0

\* C2: a persisted bet's status changes only from pending to won, lost or
\* pushed: no request moves a bet out of won, lost or pushed, and no
\* request that changes a bet leaves it a status outside
\* {pending, won, lost, pushed}.
C2_StatusOnlyLeavesPending ==
    [][\A i \in 1..Len(db) :
          /\ i <= Len(db')
          /\ db'[i].status # db[i].status =>
                (db[i].status = S_pending /\ db'[i].status \in {S_won, S_lost, S_pushed})
          /\ db'[i] # db[i] => db'[i].status \in Statuses]_vars

----------------------------------------------------------------------------
(* The parser on its own: an email arrives with a subject, its body is     *)
(* written line by line, and parse_email is called on it.                  *)

MaxLines == 4

\* The lines a body is made of: those of test_parser's sample email.
F_confirm ==
    <<"Y", "o", "u", "r", " ", "F", "a", "n", "D", "u", "e", "l", " ", "b",
    "e", "t", " ", "c", "o", "n", "f", "i", "r", "m", "a", "t", "i", "o",
    "n", "\n">>
F_bet ==
    <<"B", "e", "t", ":", " ", "C", "h", "i", "e", "f", "s", " ", "-", "3",
    ".", "5", " ", "(", "S", "p", "r", "e", "a", "d", ")", "\n">>
F_odds ==
    <<"O", "d", "d", "s", ":", " ", "-", "1", "1", "0", "\n">>
F_stake ==
    <<"S", "t", "a", "k", "e", ":", " ", "$", "2", "5", ".", "0", "0", "\n">>

BodyLines == {F_confirm, F_bet, F_odds, F_stake}
Subjects == {<<>>, E_subject}

Lines(text) == Cardinality({i \in 1..Len(text) : text[i] = "\n"})

InitEmail ==
    /\ StatsIdle
    /\ CsvIdle
    /\ CleanIdle
    /\ AppIdle
    /\ mail \in [content : {<<>>}, subject : Subjects]
    /\ parsed = NoParse

WriteBodyLine ==
    /\ parsed = NoParse
    /\ Lines(mail.content) < MaxLines
    /\ \E line \in BodyLines : mail' = [mail EXCEPT !.content = @ \o line]
    /\ UNCHANGED <<parsed, statsVars, csvVars, cleanVars, appVars>>

CallParseEmail ==
    /\ parsed = NoParse
    /\ \E now \in Clock, pads_year \in BOOLEAN :
          parsed' = [returned |-> TRUE,
                     value |-> parse_email(mail.content, mail.subject, now,
                                           pads_year)]
    /\ UNCHANGED <<mail, statsVars, csvVars, cleanVars, appVars>>

NextEmail == WriteBodyLine \/ CallParseEmail

SpecEmail == InitEmail /\ [][NextEmail]_vars

----------------------------------------------------------------------------
(* Properties of the parser, stated on the email that was parsed and what  *)
(* came back.                                                              *)

Parsed == parsed # NoParse

\* A sportsbook's name stands somewhere in the subject, a blank and the
\* body, whatever the case of its letters.
Recognised ==
    \E n \in 1..Len(Sportsbooks) :
        Contains(mail.subject \o <<" ">> \o mail.content, Sportsbooks[n])

\* The body holds a dollar sign followed by a digit: the stake pattern finds
\* an amount, which cleaning leaves non-empty.
StakeFound ==
    \E i \in 1..(Len(mail.content) - 1) :
        mail.content[i] = "$" /\ IsDigit(mail.content[i + 1])

\* The body holds a sign followed by a digit: the odds pattern finds a
\* number, which cleaning leaves non-empty.
OddsFound ==
    \E i \in 1..(Len(mail.content) - 1) :
        mail.content[i] \in {"+", "-"} /\ IsDigit(mail.content[i + 1])

\* C12: parse_email returns a record exactly when a sportsbook is recognised
\* in the subject and body and both the cleaned stake and the cleaned odds
\* are non-empty, and None in every other case; a returned record has
\* neither an empty stake nor empty odds.
C12_RecordIffRecognisedAndComplete ==
    Parsed =>
        /\ parsed.value # NoneRec <=> (Recognised /\ StakeFound /\ OddsFound)
        /\ parsed.value # NoneRec =>
              parsed.value.stake # <<>> /\ parsed.value.odds # <<>>

\* An email without a subject whose body names the sportsbook and carries a
\* stake and odds was parsed into a record.
C12_Witness ==
    /\ Parsed
    /\ mail.subject = <<>>
    /\ Recognised /\ StakeFound /\ OddsFound
    /\ parsed.value # NoneRec

\* The piece stands in the text, letter for letter.
Occurs(text, piece) ==
    \E i \in 1..(Len(text) - Len(piece) + 1) :
        SubSeq(text, i, i + Len(piece) - 1) = piece

\* The line (with its line break) is one of the lines of the text.
HasLine(text, line) ==
    \E i \in 1..(Len(text) - Len(line) + 1) :
        /\ i = 1 \/ text[i - 1] = "\n"
        /\ SubSeq(text, i, i + Len(line) - 1) = line

W_FanDuelBetConfirmation ==
    <<"F", "a", "n", "D", "u", "e", "l", " ", "b", "e", "t", " ", "c", "o",
    "n", "f", "i", "r", "m", "a", "t", "i", "o", "n">>

\* C13: for a body that contains "FanDuel bet confirmation", the line
\* "Stake: $25.00" and the line "Odds: -110", parse_email returns a record
\* with sportsbook "fanduel", stake "25.00" and odds "-110", whatever other
\* lines the body holds and wherever they stand.
C13_LabelledStakeAndOdds ==
    (/\ Parsed
     /\ Occurs(mail.content, W_FanDuelBetConfirmation)
     /\ HasLine(mail.content, F_stake)
     /\ HasLine(mail.content, F_odds))
    => /\ parsed.value # NoneRec
       /\ parsed.value.sportsbook = W_fanduel
       /\ parsed.value.stake = <<"2", "5", ".", "0", "0">>
       /\ parsed.value.odds = <<"-", "1", "1", "0">>

----------------------------------------------------------------------------
(* The cleaning functions on their own: a cell value is typed character by *)
(* character and cleaned; a cleaned text may be handed back as the next    *)
(* value.                                                                  *)

MaxChars == 4

CellChars == {" ", "n", "a", "N", "1", "."}

InitClean ==
    /\ StatsIdle
    /\ CsvIdle
    /\ EmailIdle
    /\ AppIdle
    /\ raw = <<>>
    /\ cleaned = NoClean

TypeChar ==
    /\ cleaned = NoClean
    /\ Len(raw) < MaxChars
    /\ \E c \in CellChars : raw' = Append(raw, c)
    /\ UNCHANGED <<cleaned, statsVars, csvVars, emailVars, appVars>>

CallCleanText ==
    /\ cleaned = NoClean
    /\ cleaned' = [returned |-> TRUE, by |-> "_clean_text",
                   value |-> _clean_text(raw)]
    /\ UNCHANGED <<raw, statsVars, csvVars, emailVars, appVars>>

CallCleanNumeric ==
    /\ cleaned = NoClean
    /\ cleaned' = [returned |-> TRUE, by |-> "_clean_numeric",
                   value |-> _clean_numeric(raw)]
    /\ UNCHANGED <<raw, statsVars, csvVars, emailVars, appVars>>

\* The text that came back is the next value to clean.
CleanAgain ==
    /\ cleaned # NoClean
    /\ cleaned.by = "_clean_text"
    /\ raw' = cleaned.value
    /\ cleaned' = NoClean
    /\ UNCHANGED <<statsVars, csvVars, emailVars, appVars>>

NextClean == TypeChar \/ CallCleanText \/ CallCleanNumeric \/ CleanAgain

SpecClean == InitClean /\ [][NextClean]_vars

----------------------------------------------------------------------------
(* Properties of the cleaning functions, stated on the value that was      *)
(* cleaned and what came back.                                             *)

CleanedBy(f) == cleaned # NoClean /\ cleaned.by = f

\* No whitespace at either end.
Trimmed(s) == s = <<>> \/ (~IsSpace(Head(s)) /\ ~IsSpace(s[Len(s)]))

\* A plain number: digits with at most one point among them.
PlainNumber(s) ==
    /\ s # <<>>
    /\ \A i \in 1..Len(s) : IsDigit(s[i]) \/ s[i] = "."
    /\ \E i \in 1..Len(s) : IsDigit(s[i])
    /\ Cardinality({i \in 1..Len(s) : s[i] = "."}) <= 1

\* C14: _clean_text returns a value without whitespace at its ends as it is,
\* cleaning what _clean_text returned returns it again, and _clean_numeric
\* returns the value of a plain number.
C14_CleaningIdempotent ==
    /\ CleanedBy("_clean_text") =>
          /\ Trimmed(raw) => cleaned.value = raw
          /\ _clean_text(cleaned.value) = cleaned.value
    /\ (CleanedBy("_clean_numeric") /\ PlainNumber(raw)) =>
          cleaned.value = PyFloat(raw) /\ Len(cleaned.value) = 1

----------------------------------------------------------------------------
(* Properties of the requests, stated on the table before and after the    *)
(* request that was served.                                                *)

\* The step serves an update_bet request for a bet the caller owns, with a
\* payout, if one is supplied, that float() accepts.
UpdatesOwnBet ==
    /\ request'.handler = "update_bet"
    /\ request'.bet_id \in 1..Len(db)
    /\ db[request'.bet_id].user_id = request'.current_user
    /\ "actual_payout" \in DOMAIN request'.data =>
          PyFloat(request'.data.actual_payout) # NoNum

\* C15: update_bet on a bet of the caller sets its status to the requested
\* one and its actual_payout to the supplied payout or else
\* potential_payout (won), 0 (lost), the stake (pushed), 0 (pending), and
\* leaves every other column of the bet as it was.
C15_UpdateSetsStatusAndPayout ==
    [][UpdatesOwnBet =>
          LET data == request'.data
              before == db[request'.bet_id]
              after == db'[request'.bet_id]
          IN  /\ after.status = data.status
              /\ data.status = S_won =>
                    after.actual_payout =
                        IF "actual_payout" \in DOMAIN data
                        THEN Val(PyFloat(data.actual_payout))
                        ELSE before.potential_payout
              /\ data.status = S_lost => after.actual_payout = 0
              /\ data.status = S_pushed => after.actual_payout = before.stake
              /\ data.status = S_pending => after.actual_payout = 0
              /\ \A column \in DOMAIN before \ {"status", "actual_payout"} :
                    after[column] = before[column]]_vars

\* What the dashboard (on each day of the clock) and the weekly history
\* show a user, for a table.
Shown(rows, user) ==
    [dashboard |-> [now \in Clock |-> dashboard(rows, user, now)],
     weekly_history |-> weekly_history(rows, user)]

\* C16: an update_bet request with the id of another user's bet changes no
\* bet; every bet a request creates belongs to the user who sent it; no bet
\* changes owner; and what the dashboard and the weekly history show a
\* user is unchanged by every request of another user.
C16_OwnerIsolation ==
    [][request'.handler # "none" =>
          LET sender == request'.current_user IN
          /\ (/\ request'.handler = "update_bet"
               /\ request'.bet_id \in 1..Len(db)
               /\ db[request'.bet_id].user_id # sender) => db' = db
          /\ Len(db') >= Len(db)
          /\ \A i \in 1..Len(db) : db'[i].user_id = db[i].user_id
          /\ \A i \in (Len(db) + 1)..Len(db') : db'[i].user_id = sender
          /\ \A other \in Users \ {sender} :
                db' # db => Shown(db', other) = Shown(db, other)]_vars

\* A user has just sent update_bet with the id of a bet of another user,
\* who has a bet in the week the dashboard shows; the sender has bets too.
C16_Witness ==
    /\ request.handler = "update_bet"
    /\ request.bet_id \in 1..Len(db)
    /\ db[request.bet_id].user_id # request.current_user
    /\ request.data.status = S_won
    /\ \E i \in 1..Len(db) : db[i].user_id = request.current_user
    /\ \E now \in Clock :
          dashboard(db, db[request.bet_id].user_id, now).weekly_stats.total_bets > 0

\* The days between two dates.
DaysApart(a, b) == Abs(ToOrdinal(a) - ToOrdinal(b))

\* C17: every persisted bet is stored with the ISO week number of its date,
\* a value in 1..52, and the year of its date, and two bets of one user
\* stored under the same year and week number have dates of one calendar
\* week, at most 6 days apart.
C17_WeeksMatchCalendar ==
    /\ \A i \in 1..Len(db) :
          /\ db[i].week_number = get_week_number(db[i].date)
          /\ db[i].week_number \in 1..52
          /\ db[i].year = db[i].date[1]
    /\ \A i, j \in 1..Len(db) :
          (/\ db[i].user_id = db[j].user_id
           /\ db[i].year = db[j].year
           /\ db[i].week_number = db[j].week_number)
          => DaysApart(db[i].date, db[j].date) <= 6

----------------------------------------------------------------------------
(* The aggregate against the per-bet figure, on the list that was          *)
(* summarised.                                                             *)

\* The statuses are among the four, and the payout of a lost, pushed or
\* pending bet is the one its status calls for.
FollowsPolicy(bet) ==
    /\ bet.status \in Statuses
    /\ bet.status = S_lost => bet.actual_payout = 0
    /\ bet.status = S_pushed => bet.actual_payout = bet.stake
    /\ bet.status = S_pending => bet.actual_payout = 0

\* C18: for a list of bets that follow the status policy, pending bets
\* included, the profit_loss calculate_stats returns is the sum of the
\* bets' profit_loss property (rounded to cents, as the summary is).
C18_ProfitFiguresAgree ==
    (/\ Summarised
     /\ stats # ZeroDivisionError
     /\ \A i \in 1..Len(records) : FollowsPolicy(records[i]))
    => stats.profit_loss =
           Round2(SumSeq([i \in 1..Len(records) |-> Bet_profit_loss(records[i])]))

============================================================================
